---- MODULE Spec2Model ----
(***************************************************************************)
(* Commerce document and cash ledger of fer336/octopus.                    *)
(*                                                                         *)
(* One business, its five numbering counters, its products' stock, its     *)
(* vouchers (with lines and payments), its cash registers and their        *)
(* movements.  Every HTTP handler is a request that runs on its own        *)
(* database session: it reads committed rows, computes in Python and       *)
(* writes the values it computed when it commits.  A handler is therefore  *)
(* split at its awaits into a step that reads and validates and a step     *)
(* that commits; between the two, other requests may run (Spec), or may    *)
(* not (SeqSpec, requests served one after another).                       *)
(*                                                                         *)
(* Money: stored columns are Numeric(12,2) and are held in cents.  Values  *)
(* computed in Python before they are stored are held in units of          *)
(* 1/CentUnits of a cent, and Round2 is the rounding the column applies.   *)
(* Quantities are held in tenths of a unit.                                *)
(***************************************************************************)
EXTENDS Integers, Sequences, FiniteSets, TLC

\* ---------------------------------------------------------------- bounds
MaxRequests == 4
MaxNow == 25
TickHours == 25

\* ------------------------------------------------------- program constants
EXPIRED_THRESHOLD_HOURS == 24
CentUnits == 100000
PaymentTolerance == 1
NumberWidth == 8
NcIvaRate == 21

Procs == {"h1", "h2"}

\* ------------------------------------------------------------ enumerations
VoucherType ==
  {"quotation", "receipt", "invoice_a", "invoice_b", "invoice_c",
   "credit_note_a", "credit_note_b", "credit_note_c",
   "debit_note_a", "debit_note_b", "debit_note_c"}

Families == {"quotation", "receipt", "invoice_a", "invoice_b", "invoice_c"}

INVOICE_TYPES == {"invoice_a", "invoice_b", "invoice_c"}

CreditNoteTypes == {"credit_note_a", "credit_note_b", "credit_note_c"}

CashMovementType == {"SALE", "PAYMENT_RECEIVED", "INCOME", "EXPENSE"}

CashPaymentMethod == {"CASH", "CARD", "TRANSFER", "CHECK", "OTHER"}

\* ----------------------------------------------------- numbers as strings
Digits == 0..9

RECURSIVE Pow10(_)
Pow10(n) == IF n = 0 THEN 1 ELSE 10 * Pow10(n - 1)

\* str(n).zfill(8) for 0 <= n < 10^8: the eight decimal digits of n
Zfill(n) == [i \in 1..NumberWidth |-> (n \div Pow10(NumberWidth - i)) % 10]

RECURSIVE ParseInt(_)
\* int(s) of a string of decimal digits
ParseInt(s) ==
  IF Len(s) = 0 THEN 0
  ELSE 10 * ParseInt(SubSeq(s, 1, Len(s) - 1)) + s[Len(s)]

PENDING == <<"P", "E", "N", "D", "I", "N", "G">>

\* ------------------------------------------------------------------ money
\* Numeric(12,2): a value in 1/CentUnits of a cent is rounded to cents,
\* halves away from zero.
Round2(x) ==
  IF x >= 0 THEN (x + CentUnits \div 2) \div CentUnits
  ELSE -(((-x) + CentUnits \div 2) \div CentUnits)

Abs(x) == IF x >= 0 THEN x ELSE -x

RECURSIVE SeqSum(_)
SeqSum(s) == IF Len(s) = 0 THEN 0 ELSE s[1] + SeqSum(Tail(s))

\* unit_price (cents) * quantity (tenths) * (1 - discount_percent/100)
LineSubtotal(unit_price, quantity, discount_percent) ==
  unit_price * quantity * (100 - discount_percent) * (CentUnits \div 1000)

\* subtotal_line * (iva_rate / 100)
LineIva(subtotal_line, iva_rate) == (subtotal_line * iva_rate) \div 100

\* ---------------------------------------------------------------- catalog
Products == {"p1", "p2"}
ForeignProduct == "px"

net_price == [p \in Products |-> IF p = "p1" THEN 105 ELSE 200]
iva_rate == [p \in Products |-> 21]

Clients == {"c_ri", "c_cf"}
ForeignClient == "c_other"
tax_condition == [c \in Clients |-> IF c = "c_ri" THEN "RI" ELSE "CF"]

\* payment_methods rows of the business: id -> is_active, requires_reference
PaymentMethods == {"pm_cash", "pm_card", "pm_old"}
is_active == [m \in PaymentMethods |-> m # "pm_old"]
requires_reference == [m \in PaymentMethods |-> m = "pm_card"]

CurrentUser == "u1"

Null == <<>>
Some(v) == <<v>>

VARIABLES
  last_number,   \* Business.last_<family>_number, a string of digits
  stock,         \* Product.current_stock
  vouchers,      \* rows of vouchers, each with its items and payments
  next_voucher,  \* identifiers handed out to vouchers so far
  registers,     \* rows of cash_registers
  movements,     \* rows of cash_movements
  afip_last,     \* last number the fiscal authority assigned, per type
  now,           \* datetime.utcnow(), in hours
  served,        \* requests admitted so far
  pc,            \* where each request is
  local          \* what each request holds in Python objects

vars == <<last_number, stock, vouchers, next_voucher, registers, movements,
          afip_last, now, served, pc, local>>

dbvars == <<last_number, stock, vouchers, next_voucher, registers, movements,
            afip_last>>

NoLocal == [kind |-> "none"]

Init ==
  /\ last_number = [f \in Families |-> Zfill(0)]
  /\ stock = [p \in Products |-> 5]
  /\ vouchers = {}
  /\ next_voucher = 0
  /\ registers = {}
  /\ movements = {}
  /\ afip_last = [t \in CreditNoteTypes |-> 0]
  /\ now = 0
  /\ served = 0
  /\ pc = [p \in Procs |-> "idle"]
  /\ local = [p \in Procs |-> NoLocal]

\* A request is taken up while the budget of requests lasts.
Admit(p) == pc[p] = "idle" /\ served < MaxRequests

\* The handler returns its response (code is the HTTP status).
Respond(p, code) ==
  /\ pc' = [pc EXCEPT ![p] = "idle"]
  /\ local' = [local EXCEPT ![p] = NoLocal]

\* The handler raises before it wrote anything: the session is closed and
\* no row changes.
Reject(p, code) == Respond(p, code) /\ UNCHANGED <<dbvars, now, served>>

\* The handler passed its checks and is suspended at its next await.
Proceed(p, where, held) ==
  /\ pc' = [pc EXCEPT ![p] = where]
  /\ local' = [local EXCEPT ![p] = held]
  /\ served' = served + 1
  /\ UNCHANGED <<dbvars, now>>

\* ============================================================ cash register
_is_expired(r, t) ==
  IF r.status # "OPEN" THEN FALSE
  ELSE r.opened_at < t - EXPIRED_THRESHOLD_HOURS

\* the rows the query of get_open_cash_register selects
OpenRows == {r \in registers : r.status = "OPEN"}

\* scalar_one_or_none: no row, the row, or MultipleResultsFound
get_open_cash_register ==
  IF OpenRows = {} THEN [found |-> "none"]
  ELSE IF Cardinality(OpenRows) = 1
       THEN [found |-> "one", row |-> CHOOSE r \in OpenRows : TRUE]
       ELSE [found |-> "multiple"]

MovementsOf(rid) == {m \in movements : m.cash_register_id = rid}

RECURSIVE SumAmounts(_)
SumAmounts(ms) ==
  IF ms = {} THEN 0
  ELSE LET m == CHOOSE x \in ms : TRUE IN m.amount + SumAmounts(ms \ {m})

MethodSummaryIgnoresCollections(ms, method) ==
  LET of(type) == SumAmounts({m \in ms : m.payment_method = method /\ m.type = type})
      inflows == of("SALE") + of("INCOME")
  IN [payment_method |-> method,
      total_sales |-> of("SALE"),
      total_payments_received |-> of("PAYMENT_RECEIVED"),
      total_income |-> of("INCOME"),
      total_expense |-> of("EXPENSE"),
      net |-> inflows - of("EXPENSE")]

\* _calculate_summary over a register and the movements loaded with it
MethodSummary(ms, method) ==
  LET of(type) == SumAmounts({m \in ms : m.payment_method = method /\ m.type = type})
      inflows == of("SALE") + of("PAYMENT_RECEIVED") + of("INCOME")
  IN [payment_method |-> method,
      total_sales |-> of("SALE"),
      total_payments_received |-> of("PAYMENT_RECEIVED"),
      total_income |-> of("INCOME"),
      total_expense |-> of("EXPENSE"),
      net |-> inflows - of("EXPENSE")]

RECURSIVE SumNet(_, _)
SumNet(by_method, methods) ==
  IF methods = {} THEN 0
  ELSE LET k == CHOOSE x \in methods : TRUE
       IN by_method[k].net + SumNet(by_method, methods \ {k})

_calculate_summary(r, ms) ==
  LET by_method == [k \in CashPaymentMethod |-> MethodSummary(ms, k)]
  IN [by_method |-> by_method,
      total_net |-> SumNet(by_method, CashPaymentMethod),
      expected_cash |-> r.opening_amount + by_method["CASH"].net]

\* GET /cash/{cash_register_id}/summary: the register is loaded with its
\* movements and the summary is computed from them; nothing is written
get_summary_query(p, cash_register_id) ==
  /\ Admit(p)
  /\ IF ~ \E r \in registers : r.id = cash_register_id THEN Reject(p, 404)
     ELSE LET register == CHOOSE r \in registers : r.id = cash_register_id IN
          Proceed(p, "get_summary",
                  [kind |-> "get_summary", register |-> cash_register_id,
                   response |-> _calculate_summary(register,
                                                   MovementsOf(cash_register_id))])

get_summary_return(p) ==
  /\ pc[p] = "get_summary"
  /\ Respond(p, 200)
  /\ UNCHANGED <<dbvars, now, served>>

get_summary(p) ==
  \/ \E id \in 1..MaxRequests : get_summary_query(p, id)
  \/ get_summary_return(p)

OpeningAmounts == {1000}

\* what open_cash answers, given what get_open_cash_register returned at t
open_cash_response(existing, t) ==
  IF existing.found = "multiple"
  THEN [code |-> 500, detail |-> "MultipleResultsFound"]
  ELSE IF existing.found = "one"
       THEN IF _is_expired(existing.row, t)
            THEN [code |-> 409, detail |-> "expired"]
            ELSE [code |-> 409, detail |-> "open"]
       ELSE [code |-> 201, detail |-> "created"]

open_cash_check(p, opening_amount) ==
  /\ Admit(p)
  /\ LET response == open_cash_response(get_open_cash_register, now) IN
       IF response.code # 201 THEN Reject(p, response.code)
       ELSE Proceed(p, "open_cash",
                    [kind |-> "open_cash", opening_amount |-> opening_amount,
                     opened_at |-> now])

open_cash_commit(p) ==
  /\ pc[p] = "open_cash"
  /\ registers' = registers \cup
       {[id |-> Cardinality(registers) + 1,
         status |-> "OPEN",
         opening_amount |-> local[p].opening_amount,
         opened_at |-> local[p].opened_at,
         closed_by |-> Null, closed_at |-> Null, counted_cash |-> Null,
         difference |-> Null, difference_reason |-> Null]}
  /\ Respond(p, 201)
  /\ UNCHANGED <<last_number, stock, vouchers, next_voucher, movements,
                 afip_last, now, served>>

open_cash(p) ==
  \/ \E a \in OpeningAmounts : open_cash_check(p, a)
  \/ open_cash_commit(p)

\* counted_cash of the request, and its difference_reason: None, "" or a text
CountedAmounts == {1000, 1127}
Reasons == {"none", "empty", "text"}
ReasonMissingNoneOnly(reason) == reason = "none"

\* not data.difference_reason
ReasonMissing(reason) == reason \in {"none", "empty"}
StoredReason(reason) == IF reason = "none" THEN Null ELSE Some(reason)

\* what close_cash answers, given what get_open_cash_register returned and
\* the movements stored now
close_cash_response(found, counted_cash, reason) ==
  IF found.found = "multiple" THEN 500
  ELSE IF found.found = "none" THEN 404
  ELSE LET summary == _calculate_summary(found.row, MovementsOf(found.row.id))
           difference == counted_cash - summary.expected_cash
       IN IF difference # 0 /\ ReasonMissing(reason) THEN 422 ELSE 200

close_cash_check(p, counted_cash, reason) ==
  /\ Admit(p)
  /\ LET found == get_open_cash_register
         code == close_cash_response(found, counted_cash, reason)
     IN
       IF code # 200 THEN Reject(p, code)
       ELSE LET register == found.row
                summary == _calculate_summary(register, MovementsOf(register.id))
                difference == counted_cash - summary.expected_cash
            IN Proceed(p, "close_cash",
                       [kind |-> "close_cash", register |-> register.id,
                        counted_cash |-> counted_cash,
                        difference |-> difference,
                        difference_reason |-> reason,
                        closed_at |-> now])

close_cash_commit(p) ==
  /\ pc[p] = "close_cash"
  /\ registers' =
       {IF r.id = local[p].register
        THEN [r EXCEPT !.status = "CLOSED",
                       !.closed_by = Some(CurrentUser),
                       !.closed_at = Some(local[p].closed_at),
                       !.counted_cash = Some(local[p].counted_cash),
                       !.difference = Some(local[p].difference),
                       !.difference_reason = StoredReason(local[p].difference_reason)]
        ELSE r : r \in registers}
  /\ Respond(p, 200)
  /\ UNCHANGED <<last_number, stock, vouchers, next_voucher, movements,
                 afip_last, now, served>>

close_cash(p) ==
  \/ \E c \in CountedAmounts, reason \in Reasons : close_cash_check(p, c, reason)
  \/ close_cash_commit(p)

\* the manual movement endpoint: the router looks the path's register up,
\* then the service records the movement in the open register
MovementAmounts == {127}

\* what the endpoint answers to a request that names cash_register_id
add_movement_response(cash_register_id, found, t) ==
  IF ~ \E r \in registers : r.id = cash_register_id THEN 404
  ELSE IF found.found = "multiple" THEN 500
  ELSE IF found.found = "none" THEN 404
  ELSE IF _is_expired(found.row, t) THEN 409
  ELSE 201

add_movement_check(p, cash_register_id, type, method, amount) ==
  /\ Admit(p)
  /\ LET found == get_open_cash_register
         code == add_movement_response(cash_register_id, found, now)
     IN
       IF code # 201 THEN Reject(p, code)
       ELSE Proceed(p, "add_movement",
                    [kind |-> "add_movement", register |-> found.row.id,
                     requested |-> cash_register_id,
                     type |-> type, payment_method |-> method,
                     amount |-> amount])

add_movement_commit(p) ==
  /\ pc[p] = "add_movement"
  /\ movements' = movements \cup
       {[id |-> Cardinality(movements) + 1,
         cash_register_id |-> local[p].register,
         type |-> local[p].type,
         payment_method |-> local[p].payment_method,
         amount |-> local[p].amount,
         voucher_id |-> Null]}
  /\ Respond(p, 201)
  /\ UNCHANGED <<last_number, stock, vouchers, next_voucher, registers,
                 afip_last, now, served>>

add_movement(p) ==
  \/ \E rid \in 1..MaxRequests, type \in {"INCOME", "EXPENSE"},
        method \in {"CASH", "CARD"}, amount \in MovementAmounts :
       add_movement_check(p, rid, type, method, amount)
  \/ add_movement_commit(p)

\* ================================================================ vouchers
\* request catalogue: lines of a VoucherCreate
Items1 == <<[product_id |-> "p1", quantity |-> 10, discount_percent |-> 0]>>
Items2 == <<[product_id |-> "p1", quantity |-> 10, discount_percent |-> 0],
            [product_id |-> "p2", quantity |-> 15, discount_percent |-> 10]>>
\* "items": [] is a List[VoucherItemCreate]
ItemsNone == <<>>
ItemsForeign == <<[product_id |-> ForeignProduct, quantity |-> 10, discount_percent |-> 0]>>

Pay(method, amount, reference) ==
  [payment_method_id |-> method, amount |-> amount, reference |-> reference]

\* request catalogue: payments of a request (amounts in cents)
PaymentLists ==
  {<<>>,
   <<Pay("pm_cash", 127, FALSE)>>,
   <<Pay("pm_cash", 100, FALSE), Pay("pm_card", 27, TRUE)>>,
   <<Pay("pm_cash", 100, FALSE), Pay("pm_card", 26, TRUE)>>,
   <<Pay("pm_cash", 128, FALSE)>>,
   <<Pay("pm_cash", 454, FALSE)>>,
   <<Pay("pm_old", 127, FALSE)>>,
   <<Pay("pm_card", 127, FALSE)>>,
   <<Pay("pm_gone", 127, FALSE)>>}

CreateRequests ==
  [voucher_type : {"quotation"}, client_id : Clients \cup {ForeignClient},
   items : {Items1}, payments : {<<>>}]
  \cup
  [voucher_type : {"invoice_b"}, client_id : {"c_cf"},
   items : {Items1, Items2, ItemsForeign}, payments : PaymentLists]
  \cup
  [voucher_type : {"credit_note_b"}, client_id : {"c_cf"},
   items : {Items1}, payments : {<<>>}]
  \cup
  [voucher_type : {"quotation"}, client_id : {"c_cf"},
   items : {ItemsNone}, payments : {<<>>}]

\* one line as create and convert_quotation_to_invoice compute it, from the
\* product's current net_price and iva_rate
ComputeLine(item) ==
  LET unit_price == net_price[item.product_id]
      subtotal_line == LineSubtotal(unit_price, item.quantity, item.discount_percent)
      iva_line == LineIva(subtotal_line, iva_rate[item.product_id])
  IN [product_id |-> item.product_id,
      quantity |-> item.quantity,
      unit_price |-> unit_price,
      discount_percent |-> item.discount_percent,
      iva_rate |-> iva_rate[item.product_id],
      subtotal_line |-> subtotal_line,
      iva_line |-> iva_line,
      total_line |-> subtotal_line + iva_line]

ComputeLines(items) == [i \in 1..Len(items) |-> ComputeLine(items[i])]

\* the VoucherItem row of a computed line: its amounts in Numeric(12,2)
StoredItem(line) ==
  [product_id |-> line.product_id,
   quantity |-> line.quantity,
   unit_price |-> line.unit_price,
   discount_percent |-> line.discount_percent,
   iva_rate |-> line.iva_rate,
   subtotal |-> Round2(line.subtotal_line),
   iva_amount |-> Round2(line.iva_line),
   total |-> Round2(line.total_line)]

StoredItems(lines) == [i \in 1..Len(lines) |-> StoredItem(lines[i])]

total_subtotal(lines) == SeqSum([i \in 1..Len(lines) |-> lines[i].subtotal_line])
total_iva(lines) == SeqSum([i \in 1..Len(lines) |-> lines[i].iva_line])
total_final(lines) == SeqSum([i \in 1..Len(lines) |-> lines[i].total_line])

\* int(quantity) of a quantity in tenths
IntQuantity(quantity) == quantity \div 10

RECURSIVE DecrementStock(_, _)
\* product.current_stock -= int(item.quantity), line after line
DecrementStock(st, items) ==
  IF Len(items) = 0 THEN st
  ELSE DecrementStock(
         [st EXCEPT ![items[1].product_id] = @ - IntQuantity(items[1].quantity)],
         Tail(items))

\* the quantity of product q on the lines, in tenths of a unit
QuantityOf(items, q) ==
  SeqSum([i \in 1..Len(items) |->
            IF items[i].product_id = q THEN items[i].quantity ELSE 0])

CounterOfQuotationsOnly(voucher_type) == Some("quotation")

\* the counter column a voucher type advances, if any
CounterOf(voucher_type) ==
  IF voucher_type \in Families THEN Some(voucher_type) ELSE Null

PaymentsMismatchNoAbs(payments, total) ==
  SeqSum([i \in 1..Len(payments) |-> payments[i].amount]) * CentUnits - total
    > PaymentTolerance * CentUnits

\* abs(total_payments - total_final) > Decimal("0.01")
PaymentsMismatch(payments, total) ==
  Abs(SeqSum([i \in 1..Len(payments) |-> payments[i].amount]) * CentUnits - total)
    > PaymentTolerance * CentUnits

\* a payment the loop over the payments refuses
PaymentRefused(payment) ==
  \/ payment.payment_method_id \notin PaymentMethods
  \/ ~ is_active[payment.payment_method_id]
  \/ requires_reference[payment.payment_method_id] /\ ~ payment.reference

PaymentsRejected(payments, total) ==
  /\ Len(payments) > 0
  /\ \/ PaymentsMismatch(payments, total)
     \/ \E i \in 1..Len(payments) : PaymentRefused(payments[i])

StoredPayments(payments) ==
  [i \in 1..Len(payments) |->
     [payment_method_id |-> payments[i].payment_method_id,
      amount |-> payments[i].amount]]

\* the Voucher row create and convert build, before it has its id
NewVoucher(voucher_type, client_id, number, lines, payments) ==
  [voucher_type |-> voucher_type,
   client_id |-> client_id,
   sale_point |-> "0001",
   number |-> number,
   subtotal |-> Round2(total_subtotal(lines)),
   iva_amount |-> Round2(total_iva(lines)),
   total |-> Round2(total_final(lines)),
   cae |-> Null,
   related_voucher_id |-> Null,
   invoiced_voucher_id |-> Null,
   deleted_at |-> Null,
   deleted_by |-> Null,
   deletion_reason |-> Null,
   items |-> StoredItems(lines),
   payments |-> StoredPayments(payments)]

WithId(row, id) == [k \in DOMAIN row \cup {"id"} |-> IF k = "id" THEN id ELSE row[k]]

VoucherById(id) == CHOOSE v \in vouchers : v.id = id

\* the UPDATE of the rows the session changed: the counter the handler
\* advanced and the stock of the products it decremented, with the values
\* the handler computed from what it had read
WriteCounter(held) ==
  last_number' =
    IF held.family = Null THEN last_number
    ELSE [last_number EXCEPT ![held.family[1]] = held.new_last]

WriteStock(held) ==
  stock' = [q \in Products |->
              IF held.new_stock[q] # held.read_stock[q]
              THEN held.new_stock[q] ELSE stock[q]]

\* The handler raises after db.flush(): the INSERT and UPDATEs it sent are
\* in a transaction that is never committed; closing the session discards
\* them (held is what the handler had built).
raise_after_flush_persists(p, held) ==
  /\ vouchers' = vouchers \cup
       {WithId([held.voucher EXCEPT !.payments = <<>>], next_voucher + 1)}
  /\ next_voucher' = next_voucher + 1
  /\ WriteCounter(held)
  /\ WriteStock(held)
  /\ Respond(p, 400)
  /\ UNCHANGED <<registers, movements, afip_last, now, served>>

raise_after_flush(p, held) ==
  /\ Respond(p, 400)
  /\ UNCHANGED <<dbvars, now, served>>

\* the router's check that a register is open, for the types that need one
CashGate(needed) ==
  IF ~ needed THEN 200
  ELSE LET found == get_open_cash_register IN
       IF found.found = "multiple" THEN 500
       ELSE IF found.found = "none" THEN 400 ELSE 200

\* VoucherService.create behind POST /vouchers
create_check(p, data) ==
  /\ Admit(p)
  /\ LET gate == CashGate(data.voucher_type \in INVOICE_TYPES)
         family == CounterOf(data.voucher_type)
         next_number ==
           IF family = Null THEN 1 ELSE ParseInt(last_number[family[1]]) + 1
     IN
       IF gate # 200 THEN Reject(p, gate)
       ELSE IF data.client_id \notin Clients THEN Reject(p, 400)
       ELSE IF \E i \in 1..Len(data.items) : data.items[i].product_id \notin Products
            THEN Reject(p, 400)
       ELSE LET lines == ComputeLines(data.items)
                held ==
                  [kind |-> "create",
                   voucher |-> NewVoucher(data.voucher_type, data.client_id,
                                          Zfill(next_number), lines, data.payments),
                   total_final |-> total_final(lines),
                   family |-> family,
                   new_last |-> Zfill(next_number),
                   read_stock |-> stock,
                   new_stock |-> IF data.voucher_type # "quotation"
                                 THEN DecrementStock(stock, data.items)
                                 ELSE stock]
            IN IF PaymentsRejected(data.payments, total_final(lines))
               THEN raise_after_flush(p, held)
               ELSE Proceed(p, "create", held)

create_commit_before_lines(p) ==
  /\ pc[p] = "create"
  /\ vouchers' = vouchers \cup
       {WithId([local[p].voucher EXCEPT !.items = <<>>, !.payments = <<>>],
               next_voucher + 1)}
  /\ next_voucher' = next_voucher + 1
  /\ WriteCounter(local[p])
  /\ WriteStock(local[p])
  /\ Respond(p, 201)
  /\ UNCHANGED <<registers, movements, afip_last, now, served>>

\* await self.db.commit(): the voucher, its lines and payments, the counter
\* and the stock in one transaction
create_commit(p) ==
  /\ pc[p] = "create"
  /\ vouchers' = vouchers \cup {WithId(local[p].voucher, next_voucher + 1)}
  /\ next_voucher' = next_voucher + 1
  /\ WriteCounter(local[p])
  /\ WriteStock(local[p])
  /\ Respond(p, 201)
  /\ UNCHANGED <<registers, movements, afip_last, now, served>>

create(p) ==
  \/ \E data \in CreateRequests : create_check(p, data)
  \/ create_commit(p)

AlreadyInvoicedNever(quotation) == FALSE

\* quotation.invoiced_voucher_id is not None
AlreadyInvoiced(quotation) == quotation.invoiced_voucher_id # Null

\* VoucherService.convert_quotation_to_invoice behind
\* POST /vouchers/{quotation_id}/convert-to-invoice
convert_check(p, quotation_id, payments) ==
  /\ Admit(p)
  /\ LET gate == CashGate(TRUE) IN
       IF gate # 200 THEN Reject(p, gate)
       ELSE IF ~ \E v \in vouchers : v.id = quotation_id /\ v.deleted_at = Null
            THEN Reject(p, 400)
       ELSE LET quotation == VoucherById(quotation_id) IN
            IF quotation.voucher_type # "quotation" THEN Reject(p, 400)
            ELSE IF AlreadyInvoiced(quotation) THEN Reject(p, 400)
            ELSE LET invoice_type ==
                       IF tax_condition[quotation.client_id] = "RI"
                       THEN "invoice_a" ELSE "invoice_b"
                     next_number == ParseInt(last_number[invoice_type]) + 1
                     lines == ComputeLines(quotation.items)
                     held ==
                       [kind |-> "convert",
                        quotation |-> quotation_id,
                        voucher |-> NewVoucher(invoice_type, quotation.client_id,
                                               Zfill(next_number), lines, payments),
                        total_final |-> total_final(lines),
                        family |-> Some(invoice_type),
                        new_last |-> Zfill(next_number),
                        read_stock |-> stock,
                        new_stock |-> DecrementStock(stock, quotation.items)]
                 IN IF PaymentsRejected(payments, total_final(lines))
                    THEN raise_after_flush(p, held)
                    ELSE Proceed(p, "convert", held)

convert_commit(p) ==
  /\ pc[p] = "convert"
  /\ vouchers' =
       {IF v.id = local[p].quotation
        THEN [v EXCEPT !.invoiced_voucher_id = Some(next_voucher + 1)]
        ELSE v : v \in vouchers}
       \cup {WithId(local[p].voucher, next_voucher + 1)}
  /\ next_voucher' = next_voucher + 1
  /\ WriteCounter(local[p])
  /\ WriteStock(local[p])
  /\ Respond(p, 201)
  /\ UNCHANGED <<registers, movements, afip_last, now, served>>

convert_quotation_to_invoice(p) ==
  \/ \E id \in 1..MaxRequests, payments \in PaymentLists :
       convert_check(p, id, payments)
  \/ convert_commit(p)

\* the reason query parameter of the delete endpoint: absent, or a text
DeleteReasons == {"none", "text"}

\* reason or "Eliminado por el usuario"
StoredDeletionReason(reason) ==
  IF reason = "none" THEN Some("Eliminado por el usuario") ELSE Some(reason)

soft_delete_reverses_stock(p) ==
  \E id \in 1..MaxRequests, reason \in DeleteReasons :
    /\ Admit(p)
    /\ \E v \in vouchers : v.id = id
    /\ vouchers' = {IF v.id = id
                    THEN [v EXCEPT !.deleted_at = Some(now),
                                   !.deleted_by = Some(CurrentUser),
                                   !.deletion_reason = StoredDeletionReason(reason)]
                    ELSE v : v \in vouchers}
    /\ stock' = [q \in Products |->
                   stock[q] + IntQuantity(QuantityOf(VoucherById(id).items, q))]
    /\ served' = served + 1
    /\ UNCHANGED <<last_number, next_voucher, registers, movements,
                   afip_last, now, pc, local>>

\* VoucherService.soft_delete behind DELETE /vouchers/{voucher_id}/delete:
\* the voucher is looked up by id, deleted or not, and the three columns
\* are written
soft_delete(p) ==
  \E id \in 1..MaxRequests, reason \in DeleteReasons :
    /\ Admit(p)
    /\ \E v \in vouchers : v.id = id
    /\ vouchers' = {IF v.id = id
                    THEN [v EXCEPT !.deleted_at = Some(now),
                                   !.deleted_by = Some(CurrentUser),
                                   !.deletion_reason = StoredDeletionReason(reason)]
                    ELSE v : v \in vouchers}
    /\ served' = served + 1
    /\ UNCHANGED <<last_number, stock, next_voucher, registers, movements,
                   afip_last, now, pc, local>>

\* POST /arca/emit-invoice: the authority authorises a voucher that has no
\* CAE yet; the voucher keeps its number.  A refusal changes nothing.
FacturableTypes == VoucherType \ {"quotation", "receipt"}

emit_electronic_invoice(p) ==
  \E id \in 1..MaxRequests :
    /\ Admit(p)
    /\ \E v \in vouchers :
         v.id = id /\ v.voucher_type \in FacturableTypes /\ v.cae = Null
    /\ vouchers' = {IF v.id = id THEN [v EXCEPT !.cae = Some("CAE")] ELSE v
                    : v \in vouchers}
    /\ served' = served + 1
    /\ UNCHANGED <<last_number, stock, next_voucher, registers, movements,
                   afip_last, now, pc, local>>

\* ============================================================= credit notes
CnItem(product, quantity, unit_price, discount_percent) ==
  [product_id |-> product, quantity |-> quantity, unit_price |-> unit_price,
   discount_percent |-> discount_percent]

\* request catalogue: items of a CreditNoteCreate
CreditItemLists ==
  {<<CnItem("p1", 5, 105, 0)>>,
   <<CnItem("p1", 10, 105, 0)>>,
   <<CnItem("p1", 10, 200, 0)>>,
   <<CnItem("p1", 20, 105, 0)>>,
   <<CnItem("p2", 10, 200, 0)>>}

nc_type_map(voucher_type) ==
  CASE voucher_type = "invoice_a" -> "credit_note_a"
    [] voucher_type = "invoice_b" -> "credit_note_b"
    [] voucher_type = "invoice_c" -> "credit_note_c"

\* the first line of the original invoice with the product, if any
OriginalItem(original, product) ==
  LET at == {i \in 1..Len(original.items) : original.items[i].product_id = product}
  IN IF at = {} THEN Null
     ELSE Some(original.items[CHOOSE i \in at : \A j \in at : i <= j])

CnItemRefusedNoQuantity(original, item) ==
  \/ OriginalItem(original, item.product_id) = Null
  \/ item.product_id \notin Products

\* a return line create_credit_note refuses
CnItemRefused(original, item) ==
  \/ OriginalItem(original, item.product_id) = Null
  \/ item.quantity > OriginalItem(original, item.product_id)[1].quantity
  \/ item.product_id \notin Products

\* one line of the credit note: quantity * unit_price * (1 - discount / 100)
\* and 21 % of it
ComputeCnLine(item) ==
  LET item_subtotal == LineSubtotal(item.unit_price, item.quantity, item.discount_percent)
      item_iva == LineIva(item_subtotal, NcIvaRate)
  IN [product_id |-> item.product_id,
      quantity |-> item.quantity,
      unit_price |-> item.unit_price,
      discount_percent |-> item.discount_percent,
      iva_rate |-> NcIvaRate,
      subtotal_line |-> item_subtotal,
      iva_line |-> item_iva,
      total_line |-> item_subtotal + item_iva]

ComputeCnLines(items) == [i \in 1..Len(items) |-> ComputeCnLine(items[i])]

\* the Voucher row of the credit note: the totals are stored negated
NewCreditNote(original, lines) ==
  LET subtotal == 0 - total_subtotal(lines)
      iva_amount == 0 - total_iva(lines)
  IN [voucher_type |-> nc_type_map(original.voucher_type),
      client_id |-> original.client_id,
      sale_point |-> "0001",
      number |-> PENDING,
      subtotal |-> Round2(subtotal),
      iva_amount |-> Round2(iva_amount),
      total |-> Round2(subtotal + iva_amount),
      cae |-> Null,
      related_voucher_id |-> Some(original.id),
      invoiced_voucher_id |-> Null,
      deleted_at |-> Null,
      deleted_by |-> Null,
      deletion_reason |-> Null,
      items |-> StoredItems(lines),
      payments |-> <<>>]

CnExceedsNoAbs(lines, original) ==
  0 - total_subtotal(lines) - total_iva(lines) > original.total * CentUnits

\* abs(credit_note.total) > original_voucher.total
CnExceeds(lines, original) ==
  Abs(0 - total_subtotal(lines) - total_iva(lines)) > original.total * CentUnits

\* VoucherService.create_credit_note behind POST /vouchers/{id}/credit-note
credit_note_check(p, original_voucher_id, items_data) ==
  /\ Admit(p)
  /\ LET gate == CashGate(TRUE) IN
       IF gate # 200 THEN Reject(p, gate)
       ELSE IF ~ \E v \in vouchers : v.id = original_voucher_id THEN Reject(p, 400)
       ELSE LET original == VoucherById(original_voucher_id) IN
            IF original.voucher_type \notin INVOICE_TYPES THEN Reject(p, 400)
            ELSE IF original.cae = Null THEN Reject(p, 400)
            ELSE LET flushed ==
                       [kind |-> "credit_note",
                        voucher |-> NewCreditNote(original, <<>>),
                        family |-> Null,
                        read_stock |-> stock, new_stock |-> stock]
                 IN
                 IF \E i \in 1..Len(items_data) : CnItemRefused(original, items_data[i])
                 THEN raise_after_flush(p, flushed)
            ELSE LET lines == ComputeCnLines(items_data) IN
                 IF CnExceeds(lines, original) THEN raise_after_flush(p, flushed)
                 ELSE Proceed(p, "credit_note",
                        [kind |-> "credit_note",
                         original |-> original_voucher_id,
                         lines |-> lines,
                         voucher |-> NewCreditNote(original, lines)])

\* the service commits the credit note; the router then calls the authority
credit_note_commit(p) ==
  /\ pc[p] = "credit_note"
  /\ vouchers' = vouchers \cup {WithId(local[p].voucher, next_voucher + 1)}
  /\ next_voucher' = next_voucher + 1
  /\ pc' = [pc EXCEPT ![p] = "emit_credit_note"]
  /\ local' = [local EXCEPT ![p] =
                 [kind |-> "emit_credit_note", credit_note |-> next_voucher + 1,
                  voucher_type |-> local[p].voucher.voucher_type]]
  /\ UNCHANGED <<last_number, stock, registers, movements, afip_last, now, served>>

\* what the call to the fiscal authority comes back with
AfipOutcomes == {"authorized", "refused", "raised"}

\* the router after afip_service.emit_credit_note
emit_credit_note_return(p, outcome) ==
  /\ pc[p] = "emit_credit_note"
  /\ LET id == local[p].credit_note
         type == local[p].voucher_type
     IN
       CASE outcome = "authorized" ->
              /\ vouchers' =
                   {IF v.id = id
                    THEN [v EXCEPT !.cae = Some("CAE"),
                                   !.number = Zfill(afip_last[type] + 1)]
                    ELSE v : v \in vouchers}
              /\ afip_last' = [afip_last EXCEPT ![type] = @ + 1]
              /\ Respond(p, 201)
         [] outcome = "refused" ->
              /\ vouchers' = {v \in vouchers : v.id # id}
              /\ Respond(p, 400)
              /\ UNCHANGED afip_last
         [] outcome = "raised" ->
              /\ Respond(p, 500)
              /\ UNCHANGED <<vouchers, afip_last>>
  /\ UNCHANGED <<last_number, stock, next_voucher, registers, movements, now, served>>

create_credit_note(p) ==
  \/ \E id \in 1..MaxRequests, items_data \in CreditItemLists :
       credit_note_check(p, id, items_data)
  \/ credit_note_commit(p)
  \/ \E outcome \in AfipOutcomes : emit_credit_note_return(p, outcome)

Tick ==
  /\ now + TickHours <= MaxNow
  /\ now' = now + TickHours
  /\ UNCHANGED <<dbvars, served, pc, local>>

\* ================================================================== prices
\* Product.calculate_prices.  list_price is in cents, the percentages
\* (discount_1..3, extra_cost, iva_rate) in tenths of a percent.  Decimal
\* arithmetic is exact here, so an unrounded amount is a fraction num/den
\* of a cent in lowest terms.
RECURSIVE Gcd(_, _)
Gcd(a, b) == IF b = 0 THEN a ELSE Gcd(b, a % b)

\* x * (n / d), reduced
Times(x, n, d) ==
  IF x.num = 0 \/ n = 0 THEN [num |-> 0, den |-> 1]
  ELSE LET g1 == Gcd(x.num, d)
           g2 == Gcd(n, x.den)
       IN [num |-> (x.num \div g1) * (n \div g2),
           den |-> (x.den \div g2) * (d \div g1)]

\* round(x, 2) of a Decimal: to the nearest cent, ties to the even cent
RoundDecimal(x) ==
  LET q == x.num \div x.den
      r == x.num % x.den
  IN IF 2 * r < x.den THEN q
     ELSE IF 2 * r > x.den THEN q + 1
     ELSE IF q % 2 = 0 THEN q ELSE q + 1

\* Decimal(str(self.iva_rate or 21)): a rate of 0 is falsy
IvaRateOrDefault(rate) == IF rate = 0 THEN 210 ELSE rate

\* list_price * (1 - d1/100) * (1 - d2/100) * (1 - d3/100) * (1 + extra_cost/100)
net_with_extra(product) ==
  Times(Times(Times(Times([num |-> product.list_price, den |-> 1],
                          1000 - product.discount_1, 1000),
                    1000 - product.discount_2, 1000),
              1000 - product.discount_3, 1000),
        1000 + product.extra_cost, 1000)

\* "+".join of int(d) for the discounts above zero, or None
discount_display(product) ==
  LET shown(d) == IF d > 0 THEN <<d \div 10>> ELSE <<>>
      discounts == shown(product.discount_1) \o shown(product.discount_2)
                     \o shown(product.discount_3)
  IN IF discounts = <<>> THEN Null ELSE Some(discounts)

\* the Product objects calculate_prices is applied to
ProductObjects ==
  [kind : {"product"},
   list_price : {100000, 333, 5},
   discount_1 : {0, 100, 1000},
   discount_2 : {0, 50},
   discount_3 : {0, 500},
   extra_cost : {0, 100},
   iva_rate : {0, 105, 210},
   net_price : {0},
   sale_price : {0},
   discount_display : {Null}]

\* a request holds a Product object built from its data
PricesInit ==
  /\ last_number = [f \in Families |-> Zfill(0)]
  /\ stock = [p \in Products |-> 5]
  /\ vouchers = {}
  /\ next_voucher = 0
  /\ registers = {}
  /\ movements = {}
  /\ afip_last = [t \in CreditNoteTypes |-> 0]
  /\ now = 0
  /\ served = 0
  /\ \E holder \in Procs :
       /\ pc = [p \in Procs |-> IF p = holder THEN "product" ELSE "idle"]
       /\ \E product \in ProductObjects :
            local = [p \in Procs |-> IF p = holder THEN product ELSE NoLocal]

\* product.calculate_prices(), a first and a second time
calculate_prices(p) ==
  /\ pc[p] \in {"product", "calculated"}
  /\ LET product == local[p]
         net == net_with_extra(product)
         sale == Times(net, 1000 + IvaRateOrDefault(product.iva_rate), 1000)
     IN local' = [local EXCEPT ![p] =
                    [product EXCEPT !.net_price = RoundDecimal(net),
                                    !.sale_price = RoundDecimal(sale),
                                    !.discount_display = discount_display(product)]]
  /\ pc' = [pc EXCEPT ![p] = IF pc[p] = "product" THEN "calculated" ELSE "recalculated"]
  /\ UNCHANGED <<dbvars, now, served>>

\* ==================================================================== claims
InFamily(f) == {v \in vouchers : v.voucher_type = f}

\* C1: for every document family, the numbers of the committed documents are
\* pairwise distinct and are exactly 1, 2, ..., n with no gap, also when the
\* creations overlap.
C1_NumbersDistinctContiguous ==
  \A f \in Families :
    /\ \A v, w \in InFamily(f) : v.id # w.id => v.number # w.number
    /\ {ParseInt(v.number) : v \in InFamily(f)} = 1..Cardinality(InFamily(f))

\* C2: no two persisted documents of the same type share the pair
\* (sale_point, number), whatever the type create was given.
C2_UniqueNumberPerType ==
  \A v, w \in vouchers :
    (v.id # w.id /\ v.voucher_type = w.voucher_type)
      => <<v.sale_point, v.number>> # <<w.sale_point, w.number>>

\* C3: with requests served one after another, a conversion is accepted only
\* for a quotation whose invoiced_voucher_id is null and it commits exactly
\* one invoice, so a converted quotation is never converted again; and a
\* non-null invoiced_voucher_id is never cleared nor changed.
C3_ConvertedAtMostOnce ==
  [][/\ \A v \in vouchers :
          v.invoiced_voucher_id # Null =>
            \E w \in vouchers' :
              w.id = v.id /\ w.invoiced_voucher_id = v.invoiced_voucher_id
     /\ \A p \in Procs :
          (pc[p] # "convert" /\ pc'[p] = "convert") =>
            /\ VoucherById(local'[p].quotation).invoiced_voucher_id = Null
            /\ vouchers' = vouchers
     /\ \A p \in Procs :
          (pc[p] = "convert" /\ pc'[p] # "convert") =>
            /\ VoucherById(local[p].quotation).invoiced_voucher_id = Null
            /\ Cardinality(vouchers') = Cardinality(vouchers) + 1
    ]_vars

C3_Witness ==
  \E q \in vouchers :
    /\ q.voucher_type = "quotation"
    /\ q.invoiced_voucher_id # Null
    /\ \E inv \in vouchers :
         inv.id = q.invoiced_voucher_id[1] /\ inv.voucher_type \in INVOICE_TYPES

\* C4: when conversions of the same quotation overlap, every conversion that
\* commits an invoice finds the quotation not yet invoiced, so at most one
\* invoice is produced from a quotation.
C4_OneInvoicePerQuotation ==
  [][\A p \in Procs :
       (pc[p] = "convert" /\ pc'[p] = "idle") =>
         VoucherById(local[p].quotation).invoiced_voucher_id = Null]_vars

IsCreditNoteOf(cn) == cn.related_voucher_id # Null

\* C5: every persisted credit note has |total| <= the total of the invoice
\* it relates to, and a credit note whose computed |total| exceeds that total
\* is never accepted for commit.
C5_CreditNoteWithinInvoice ==
  /\ \A cn \in vouchers :
       IsCreditNoteOf(cn) =>
         Abs(cn.total) <= VoucherById(cn.related_voucher_id[1]).total
  /\ \A p \in Procs :
       pc[p] = "credit_note" =>
         Abs(total_subtotal(local[p].lines) + total_iva(local[p].lines))
           <= VoucherById(local[p].original).total * CentUnits

C5_Witness ==
  \E cn \in vouchers :
    /\ IsCreditNoteOf(cn)
    /\ cn.cae # Null
    /\ cn.total < 0
    /\ Abs(cn.total) <= VoucherById(cn.related_voucher_id[1]).total

\* C6: once the credit-note operation has ended, every credit note it left
\* persisted carries an authorization code and a number assigned by the
\* authority.
C6_CreditNoteAuthorized ==
  \A cn \in vouchers :
    (/\ IsCreditNoteOf(cn)
     /\ \A p \in Procs :
          ~ (pc[p] = "emit_credit_note" /\ local[p].credit_note = cn.id))
      => (cn.cae # Null /\ cn.number # PENDING)

PaidSum(payments) == SeqSum([i \in 1..Len(payments) |-> payments[i].amount])

C8_AtMostOneOpen == Cardinality(OpenRows) <= 1

CashPaid(payments) ==
  SeqSum([i \in 1..Len(payments) |->
            IF payments[i].payment_method_id = "pm_cash"
            THEN payments[i].amount ELSE 0])

\* C9: an invoice committed with payments while a register is open raises
\* that register's expected_cash by the amount paid in cash.
C9_SaleRaisesExpectedCash ==
  [][\A p \in Procs :
       (/\ pc[p] = "create" /\ pc'[p] = "idle"
        /\ local[p].voucher.voucher_type \in INVOICE_TYPES
        /\ Cardinality(OpenRows) = 1) =>
         LET r == CHOOSE x \in OpenRows : TRUE IN
           _calculate_summary(r, {m \in movements' : m.cash_register_id = r.id}).expected_cash
             = _calculate_summary(r, MovementsOf(r.id)).expected_cash
                 + CashPaid(local[p].voucher.payments)]_vars

ExpectedCash(r) == _calculate_summary(r, MovementsOf(r.id)).expected_cash

RegisterById(id) == CHOOSE r \in registers : r.id = id

\* C10: a close request is accepted only with difference = counted_cash -
\* expected_cash (from the movements stored when it reads them) and, when
\* that is not zero, with a non-empty reason, and accepting it changes no
\* row; committing it leaves the register CLOSED with closed_by, closed_at,
\* counted_cash, that difference and the reason recorded; a register that
\* is still OPEN has none of these set, and a CLOSED one with a non-zero
\* difference has a reason.
C10_CloseRecordsDifference ==
  /\ [](\A r \in registers :
          IF r.status = "CLOSED"
          THEN /\ r.closed_by # Null /\ r.closed_at # Null
               /\ r.counted_cash # Null /\ r.difference # Null
               /\ r.difference[1] # 0 => r.difference_reason = Some("text")
          ELSE /\ r.closed_by = Null /\ r.closed_at = Null
               /\ r.counted_cash = Null /\ r.difference = Null
               /\ r.difference_reason = Null)
  /\ [][\A p \in Procs :
          /\ (pc[p] = "idle" /\ pc'[p] = "close_cash") =>
               LET l == local'[p]
                   r == RegisterById(l.register)
               IN /\ r.status = "OPEN"
                  /\ l.difference = l.counted_cash - ExpectedCash(r)
                  /\ l.difference # 0 => l.difference_reason = "text"
                  /\ registers' = registers /\ movements' = movements
          /\ (pc[p] = "close_cash" /\ pc'[p] = "idle") =>
               LET l == local[p]
                   r == CHOOSE x \in registers' : x.id = l.register
               IN /\ r.status = "CLOSED"
                  /\ r.closed_by = Some(CurrentUser)
                  /\ r.closed_at = Some(l.closed_at)
                  /\ r.counted_cash = Some(l.counted_cash)
                  /\ r.difference = Some(l.difference)
                  /\ r.difference_reason =
                       (IF l.difference_reason = "none" THEN Null
                        ELSE Some(l.difference_reason))
                  /\ \A x \in registers' :
                       x.id # l.register => x \in registers
       ]_vars

C10_Witness ==
  \E r \in registers :
    /\ r.status = "CLOSED"
    /\ MovementsOf(r.id) # {}
    /\ r.difference # Null /\ r.difference[1] # 0
    /\ r.difference_reason = Some("text")

\* C11: a register that has reached CLOSED stays CLOSED, and its closed_at,
\* counted_cash, difference and difference_reason never change again.
C11_ClosedIsTerminal ==
  [][\A r \in registers :
       r.status = "CLOSED" =>
         \E x \in registers' :
           /\ x.id = r.id /\ x.status = "CLOSED"
           /\ x.closed_at = r.closed_at
           /\ x.counted_cash = r.counted_cash
           /\ x.difference = r.difference
           /\ x.difference_reason = r.difference_reason]_vars

\* C12: while the business has an OPEN register, expired or not, open_cash
\* answers Conflict, with its own message when that register is expired,
\* and is not accepted; once no register is OPEN it is accepted.
C12_OpenConflictsWhileOpen ==
  LET response == open_cash_response(get_open_cash_register, now) IN
    IF OpenRows # {}
    THEN /\ response.code = 409
         /\ response.detail = "expired" <=> \E r \in OpenRows : _is_expired(r, now)
    ELSE response.code = 201

\* C13: a register is expired exactly when it is OPEN and more than 24 hours
\* have passed since opened_at, and a manual movement on an expired register
\* is answered Conflict.
C13_ExpiredRefusesMovements ==
  /\ \A r \in registers, t \in 0..MaxNow :
       _is_expired(r, t) <=>
         (r.status = "OPEN" /\ t - r.opened_at > EXPIRED_THRESHOLD_HOURS)
  /\ \A r \in registers :
       _is_expired(r, now) =>
         add_movement_response(r.id, get_open_cash_register, now) = 409

\* C14: an invoice creation, a conversion and a credit-note issuance are
\* accepted only while the business has a register that is OPEN and not
\* expired.
C14_DocumentsNeedLiveRegister ==
  [][\A p \in Procs :
       (/\ pc[p] = "idle"
        /\ pc'[p] \in {"create", "convert", "credit_note"}
        /\ pc'[p] = "create" => local'[p].voucher.voucher_type \in INVOICE_TYPES)
         => \E r \in OpenRows : ~ _is_expired(r, now)]_vars

\* the vouchers a step inserts
Inserted == {v \in vouchers' : \A w \in vouchers : w.id # v.id}

\* C15: a conversion that is refused changes no counter, stock or document;
\* one that is accepted shows nothing until its commit, and its commit
\* makes the invoice with its lines and payments, the counter, the stock it
\* decremented and the quotation's link visible in one step.
C15_ConvertAllOrNothing ==
  [][/\ (pc' = pc /\ served' = served) =>
          (last_number' = last_number /\ stock' = stock /\ vouchers' = vouchers)
     /\ \A p \in Procs :
          (pc[p] = "idle" /\ pc'[p] = "convert") =>
            (last_number' = last_number /\ stock' = stock /\ vouchers' = vouchers)
     /\ \A p \in Procs :
          (pc[p] = "convert" /\ pc'[p] = "idle") =>
            /\ Cardinality(Inserted) = 1
            /\ LET invoice == CHOOSE v \in Inserted : TRUE IN
                 /\ invoice.voucher_type \in {"invoice_a", "invoice_b"}
                 /\ invoice.items = local[p].voucher.items
                 /\ invoice.payments = local[p].voucher.payments
                 /\ last_number'[invoice.voucher_type] = invoice.number
                 /\ \A q \in Products :
                      local[p].new_stock[q] # local[p].read_stock[q] =>
                        stock'[q] = local[p].new_stock[q]
                 /\ \E quotation \in vouchers' :
                      /\ quotation.id = local[p].quotation
                      /\ quotation.invoiced_voucher_id = Some(invoice.id)
    ]_vars

C15_Witness ==
  \E quotation, invoice \in vouchers :
    /\ quotation.voucher_type = "quotation"
    /\ quotation.invoiced_voucher_id = Some(invoice.id)
    /\ Len(invoice.payments) = 2
    /\ last_number[invoice.voucher_type] = invoice.number
    /\ stock["p1"] < 5

\* C16: a create that is refused changes no counter, stock or document; one
\* that is accepted shows nothing until its commit, and its commit makes the
\* document together with all its lines and payments, its counter and its
\* stock visible in one step, so no document is ever stored without the
\* lines it was built with.
C16_CreateAllOrNothing ==
  [][/\ (pc' = pc /\ served' = served) =>
          (last_number' = last_number /\ stock' = stock /\ vouchers' = vouchers)
     /\ \A p \in Procs :
          (pc[p] = "idle" /\ pc'[p] = "create") =>
            (last_number' = last_number /\ stock' = stock /\ vouchers' = vouchers)
     /\ \A p \in Procs :
          (pc[p] = "create" /\ pc'[p] = "idle") =>
            /\ Cardinality(Inserted) = 1
            /\ \A v \in vouchers : v \in vouchers'
            /\ LET voucher == CHOOSE v \in Inserted : TRUE IN
                 /\ voucher.items = local[p].voucher.items
                 /\ voucher.payments = local[p].voucher.payments
                 /\ voucher.voucher_type \in Families =>
                      last_number'[voucher.voucher_type] = voucher.number
                 /\ \A q \in Products :
                      local[p].new_stock[q] # local[p].read_stock[q] =>
                        stock'[q] = local[p].new_stock[q]
    ]_vars

C16_Witness ==
  \E v \in vouchers :
    /\ v.voucher_type = "invoice_b"
    /\ Len(v.items) = 2
    /\ Len(v.payments) = 1
    /\ last_number["invoice_b"] = v.number
    /\ stock["p2"] < 5

\* the return lines fit the original: each product is on a line of the
\* original and the returned quantity is at most that line's quantity
ReturnFits(lines, original) ==
  \A i \in 1..Len(lines) :
    \E j \in 1..Len(original.items) :
      /\ original.items[j].product_id = lines[i].product_id
      /\ lines[i].quantity <= original.items[j].quantity

\* C17: a credit note is accepted, and so persisted, only for an original
\* that is an invoice A/B/C carrying an authorization code, and only with
\* return lines whose products are on the original and whose quantities do
\* not exceed the original lines'.
C17_CreditNoteValidated ==
  /\ \A p \in Procs :
       pc[p] = "credit_note" =>
         LET original == VoucherById(local[p].original) IN
           /\ original.voucher_type \in INVOICE_TYPES
           /\ original.cae # Null
           /\ ReturnFits(local[p].lines, original)
  /\ \A cn \in vouchers :
       IsCreditNoteOf(cn) =>
         LET original == VoucherById(cn.related_voucher_id[1]) IN
           /\ original.voucher_type \in INVOICE_TYPES
           /\ original.cae # Null
           /\ ReturnFits(cn.items, original)

C17_Witness ==
  \E cn \in vouchers :
    /\ IsCreditNoteOf(cn)
    /\ Len(cn.items) = 1
    /\ cn.items[1].quantity < VoucherById(cn.related_voucher_id[1]).items[1].quantity
    /\ Len(VoucherById(cn.related_voucher_id[1]).items) = 1

LinesTotal(v) == SeqSum([i \in 1..Len(v.items) |-> v.items[i].total])

\* C18: for every persisted document of every type, the sum of its lines'
\* stored totals equals the document's stored total within one cent.
C18_LinesSumToTotal ==
  \A v \in vouchers : Abs(LinesTotal(v) - v.total) <= 1

\* rows of cash_movements a register may hold when a summary is asked for
StoredMovement(id, type, method, amount) ==
  [id |-> id, cash_register_id |-> 1, type |-> type, payment_method |-> method,
   amount |-> amount, voucher_id |-> Null]

StoredMovementRows ==
  {StoredMovement(101, "SALE", "CASH", 100),
   StoredMovement(102, "SALE", "CASH", 100),
   StoredMovement(103, "PAYMENT_RECEIVED", "CASH", 50),
   StoredMovement(104, "INCOME", "CARD", 127),
   StoredMovement(105, "EXPENSE", "CASH", 30),
   StoredMovement(106, "EXPENSE", "TRANSFER", 70)}

\* one OPEN register with any of these rows already stored
SummaryInit ==
  /\ last_number = [f \in Families |-> Zfill(0)]
  /\ stock = [p \in Products |-> 5]
  /\ vouchers = {}
  /\ next_voucher = 0
  /\ \E opening_amount \in OpeningAmounts :
       registers = {[id |-> 1, status |-> "OPEN",
                     opening_amount |-> opening_amount, opened_at |-> 0,
                     closed_by |-> Null, closed_at |-> Null,
                     counted_cash |-> Null, difference |-> Null,
                     difference_reason |-> Null]}
  /\ movements \in SUBSET StoredMovementRows
  /\ afip_last = [t \in CreditNoteTypes |-> 0]
  /\ now = 0
  /\ served = 0
  /\ pc = [p \in Procs |-> "idle"]
  /\ local = [p \in Procs |-> NoLocal]

\* C19: the summary of a register gives, per payment method, the sums of
\* its stored movements by type and net = sales + collections + income -
\* expense; expected_cash = opening_amount + net of CASH; total_net = the
\* net over all methods; and computing it changes no stored row.
C19_SummaryFromMovements ==
  [][\A p \in Procs :
       (pc[p] = "idle" /\ pc'[p] = "get_summary") =>
         LET response == local'[p].response
             register == RegisterById(local'[p].register)
             ms == MovementsOf(register.id)
             of(type, k) == SumAmounts({m \in ms : m.type = type /\ m.payment_method = k})
         IN /\ \A k \in CashPaymentMethod :
                 /\ response.by_method[k].total_sales = of("SALE", k)
                 /\ response.by_method[k].total_payments_received = of("PAYMENT_RECEIVED", k)
                 /\ response.by_method[k].total_income = of("INCOME", k)
                 /\ response.by_method[k].total_expense = of("EXPENSE", k)
                 /\ response.by_method[k].net =
                      of("SALE", k) + of("PAYMENT_RECEIVED", k) + of("INCOME", k)
                        - of("EXPENSE", k)
            /\ response.expected_cash =
                 register.opening_amount + response.by_method["CASH"].net
            /\ response.total_net =
                 SumAmounts({m \in ms : m.type # "EXPENSE"})
                   - SumAmounts({m \in ms : m.type = "EXPENSE"})
            /\ registers' = registers /\ movements' = movements
            /\ vouchers' = vouchers /\ stock' = stock /\ last_number' = last_number
    ]_vars

C19_Witness ==
  \E p \in Procs :
    /\ pc[p] = "get_summary"
    /\ local[p].response.by_method["CASH"].total_sales = 200
    /\ local[p].response.by_method["CASH"].total_payments_received = 50
    /\ local[p].response.by_method["CASH"].total_expense > 0
    /\ local[p].response.total_net # local[p].response.by_method["CASH"].net
    /\ \E m \in movements : m.id < 101

\* C20: the commit of a create of a non-quotation document, and of a
\* conversion, lowers each product's current_stock by exactly the quantity
\* on its lines, below zero if need be; the commit of a quotation leaves
\* every stock unchanged.
C20_StockLoweredByQuantity ==
  [][\A p \in Procs :
       (pc[p] \in {"create", "convert"} /\ pc'[p] = "idle") =>
         \A q \in Products :
           IF local[p].voucher.voucher_type = "quotation"
           THEN stock'[q] = stock[q]
           ELSE 10 * stock'[q] = 10 * stock[q] - QuantityOf(local[p].voucher.items, q)
    ]_vars

\* the documents whose commit took stock: every create that is not a
\* quotation, and every conversion
StockAffecting ==
  {v \in vouchers : v.voucher_type # "quotation" /\ v.related_voucher_id = Null}

RECURSIVE SoldQuantity(_, _)
\* the quantity of product q on the lines of the documents vs, in tenths
SoldQuantity(vs, q) ==
  IF vs = {} THEN 0
  ELSE LET v == CHOOSE x \in vs : TRUE
       IN QuantityOf(v.items, q) + SoldQuantity(vs \ {v}, q)

\* every line of product q on the documents vs is for whole units
WholeUnits(vs, q) ==
  \A v \in vs : \A i \in 1..Len(v.items) :
    v.items[i].product_id = q => v.items[i].quantity % 10 = 0

\* C21: for a product sold in whole units, current_stock equals the initial
\* stock minus the quantities on all committed stock-affecting documents,
\* also when two creations for the product overlap and both commit (no lost
\* update).
C21_NoLostStockUpdate ==
  \A q \in Products :
    WholeUnits(StockAffecting, q) =>
      10 * stock[q] = 10 * 5 - SoldQuantity(StockAffecting, q)

\* the three columns soft_delete writes
DeletionMark(v) == <<v.deleted_at, v.deleted_by, v.deletion_reason>>

\* C22: a step that changes a document's deletion mark sets deleted_at,
\* deleted_by and deletion_reason on that document and changes nothing
\* else: the document's other columns, lines, payments and number, every
\* other document (the quotation that produced it included), every stock,
\* counter, register and cash movement are as before.
C22_SoftDeleteOnlyMarks ==
  [][\A v \in vouchers, w \in vouchers' :
       (w.id = v.id /\ DeletionMark(w) # DeletionMark(v)) =>
         /\ w.deleted_at # Null
         /\ w.deleted_by = Some(CurrentUser)
         /\ w.deletion_reason # Null
         /\ w = [v EXCEPT !.deleted_at = w.deleted_at,
                          !.deleted_by = w.deleted_by,
                          !.deletion_reason = w.deletion_reason]
         /\ \A x \in vouchers : x.id # v.id => x \in vouchers'
         /\ Cardinality(vouchers') = Cardinality(vouchers)
         /\ stock' = stock
         /\ last_number' = last_number
         /\ registers' = registers
         /\ movements' = movements
         /\ afip_last' = afip_last
    ]_vars

\* an invoice made from a quotation, paid, its stock taken, then deleted
C22_Witness ==
  \E quotation, invoice \in vouchers :
    /\ quotation.invoiced_voucher_id = Some(invoice.id)
    /\ invoice.deleted_at # Null
    /\ invoice.deleted_by = Some(CurrentUser)
    /\ invoice.deletion_reason = Some("Eliminado por el usuario")
    /\ Len(invoice.payments) > 0
    /\ stock["p1"] < 5
    /\ last_number[invoice.voucher_type] = invoice.number

\* C23: a create with an empty line list is refused: no document made by
\* create is persisted without lines, and every counter stands at the
\* number of documents of its family that have lines.
C23_EmptyLinesRefused ==
  /\ \A v \in vouchers : v.related_voucher_id = Null => Len(v.items) > 0
  /\ \A f \in Families :
       ParseInt(last_number[f]) = Cardinality({v \in InFamily(f) : Len(v.items) > 0})

\* C24: after calculate_prices, net_price is the product of list_price, the
\* three discount factors and the extra-cost factor, rounded once to cents,
\* and sale_price is that unrounded net times (1 + iva_rate/100), rounded
\* once, for every iva_rate, 0 included; this holds after a first and after
\* a second call, so a second call leaves both as they were.
C24_PricesFromInputs ==
  \A p \in Procs :
    pc[p] \in {"calculated", "recalculated"} =>
      LET product == local[p]
          net == Times(Times(Times(Times([num |-> product.list_price, den |-> 1],
                                         1000 - product.discount_1, 1000),
                                   1000 - product.discount_2, 1000),
                             1000 - product.discount_3, 1000),
                       1000 + product.extra_cost, 1000)
      IN /\ product.net_price = RoundDecimal(net)
         /\ product.sale_price =
              RoundDecimal(Times(net, 1000 + product.iva_rate, 1000))

\* C25: every persisted credit note has subtotal, iva_amount and total <= 0,
\* each of the magnitude of its lines' sums, and every one of its lines is
\* stored with subtotal, iva_amount and total negated.
C25_CreditNoteNegated ==
  \A cn \in vouchers :
    IsCreditNoteOf(cn) =>
      /\ cn.subtotal <= 0 /\ cn.iva_amount <= 0 /\ cn.total <= 0
      /\ Abs(Abs(cn.total) - Abs(LinesTotal(cn))) <= 1
      /\ Abs(Abs(cn.subtotal)
             - Abs(SeqSum([i \in 1..Len(cn.items) |-> cn.items[i].subtotal]))) <= 1
      /\ \A i \in 1..Len(cn.items) :
           /\ cn.items[i].subtotal <= 0
           /\ cn.items[i].iva_amount <= 0
           /\ cn.items[i].total <= 0

\* C26: every movement is appended while its register is OPEN, also when
\* an add_movement and a close_cash of the business overlap, so a CLOSED
\* register receives no further movement.
C26_ClosedTakesNoMovement ==
  [][\A m \in movements' :
       m \notin movements => RegisterById(m.cash_register_id).status = "OPEN"]_vars

\* C27: a manual movement is accepted only when the register named in the
\* request is the OPEN one, and the movement it records belongs to the
\* register the request named.
C27_MovementInNamedRegister ==
  [][\A p \in Procs :
       /\ (pc[p] = "idle" /\ pc'[p] = "add_movement") =>
            RegisterById(local'[p].requested).status = "OPEN"
       /\ (pc[p] = "add_movement" /\ pc'[p] = "idle") =>
            \A m \in movements' :
              m \notin movements => m.cash_register_id = local[p].requested
    ]_vars

\* the state after a register was opened and an invoice B for Items1 was
\* created and authorised
IssuedInvoiceInit ==
  /\ last_number = [f \in Families |->
                      IF f = "invoice_b" THEN Zfill(1) ELSE Zfill(0)]
  /\ stock = DecrementStock([p \in Products |-> 5], Items1)
  /\ vouchers =
       {WithId([NewVoucher("invoice_b", "c_cf", Zfill(1), ComputeLines(Items1), <<>>)
                  EXCEPT !.cae = Some("CAE")], 1)}
  /\ next_voucher = 1
  /\ \E opening_amount \in OpeningAmounts :
       registers = {[id |-> 1, status |-> "OPEN",
                     opening_amount |-> opening_amount, opened_at |-> 0,
                     closed_by |-> Null, closed_at |-> Null,
                     counted_cash |-> Null, difference |-> Null,
                     difference_reason |-> Null]}
  /\ movements = {}
  /\ afip_last = [t \in CreditNoteTypes |-> 0]
  /\ now = 0
  /\ served = 0
  /\ pc = [p \in Procs |-> "idle"]
  /\ local = [p \in Procs |-> NoLocal]

\* the authorised credit notes whose related document is the invoice
CreditNotesOf(invoice) ==
  {cn \in vouchers : cn.related_voucher_id = Some(invoice.id) /\ cn.cae # Null}

RECURSIVE ReversedTotal(_)
\* the sum of |total| over the credit notes cns
ReversedTotal(cns) ==
  IF cns = {} THEN 0
  ELSE LET cn == CHOOSE x \in cns : TRUE
       IN Abs(cn.total) + ReversedTotal(cns \ {cn})

\* C28: for every invoice, the |total| of its authorised credit notes sum
\* to at most the invoice's total, and the quantity they return of each
\* product is at most the quantity on the invoice.
C28_ReversalsWithinInvoice ==
  \A invoice \in vouchers :
    invoice.voucher_type \in INVOICE_TYPES =>
      /\ ReversedTotal(CreditNotesOf(invoice)) <= invoice.total
      /\ \A q \in Products :
           SoldQuantity(CreditNotesOf(invoice), q) <= QuantityOf(invoice.items, q)

\* C29: whenever the business has a register with status OPEN, a close_cash
\* with a counted amount and a non-empty reason is answered with success,
\* and add_movement on a register that is not expired is not answered with
\* a server error.
C29_OpenCanBeClosed ==
  OpenRows # {} =>
    /\ \A counted_cash \in CountedAmounts :
         close_cash_response(get_open_cash_register, counted_cash, "text") = 200
    /\ \A r \in OpenRows :
         add_movement_response(r.id, get_open_cash_register, now) \in {201, 409}

\* C30: with requests served one after another, the counter of every
\* family equals the number of documents of the family ever committed,
\* soft-deleted ones included; a counter never decreases; a step advances
\* at most the counter of the family of the document it inserts, by one;
\* a soft delete and a credit-note step change no counter.
C30_CountersCountDocuments ==
  /\ [](\A f \in Families : ParseInt(last_number[f]) = Cardinality(InFamily(f)))
  /\ [][/\ \A f \in Families :
             /\ ParseInt(last_number'[f]) >= ParseInt(last_number[f])
             /\ last_number'[f] # last_number[f] =>
                  /\ ParseInt(last_number'[f]) = ParseInt(last_number[f]) + 1
                  /\ \E v \in Inserted : v.voucher_type = f /\ v.number = last_number'[f]
                  /\ \A g \in Families \ {f} : last_number'[g] = last_number[g]
        /\ (\E v \in vouchers, w \in vouchers' :
              w.id = v.id /\ DeletionMark(w) # DeletionMark(v))
             => last_number' = last_number
        /\ (\E p \in Procs :
              \/ pc'[p] \in {"credit_note", "emit_credit_note"}
              \/ pc[p] \in {"credit_note", "emit_credit_note"})
             => last_number' = last_number
      ]_vars

\* two families have issued a document, and an issued document is deleted
C30_Witness ==
  /\ ParseInt(last_number["quotation"]) >= 1
  /\ ParseInt(last_number["invoice_b"]) >= 1
  /\ \E v \in vouchers :
       /\ v.voucher_type \in Families
       /\ v.deleted_at # Null
       /\ ParseInt(last_number[v.voucher_type]) = Cardinality(InFamily(v.voucher_type))

CashStep(p) ==
  \/ open_cash(p)
  \/ close_cash(p)
  \/ add_movement(p)

LedgerStep(p) ==
  \/ open_cash(p)
  \/ create(p)
  \/ convert_quotation_to_invoice(p)
  \/ soft_delete(p)
  \/ emit_electronic_invoice(p)
  \/ create_credit_note(p)

Step(p) == CashStep(p) \/ LedgerStep(p)

\* no other request is between its first read and its response
Alone(p) == \A q \in Procs \ {p} : pc[q] = "idle"

Next == Tick \/ \E p \in Procs : Step(p)
SeqNext == Tick \/ \E p \in Procs : Alone(p) /\ Step(p)
CashNext == Tick \/ \E p \in Procs : CashStep(p)
CashSeqNext == Tick \/ \E p \in Procs : Alone(p) /\ CashStep(p)
LedgerNext == \E p \in Procs : LedgerStep(p)
LedgerSeqNext == \E p \in Procs : Alone(p) /\ LedgerStep(p)
SummaryNext == \E p \in Procs : Alone(p) /\ (get_summary(p) \/ add_movement(p))
LedgerClockSeqNext == Tick \/ \E p \in Procs : Alone(p) /\ LedgerStep(p)

\* every handler, requests overlapping
Spec == Init /\ [][Next]_vars
\* every handler, one request after another
SeqSpec == Init /\ [][SeqNext]_vars
\* the cash handlers only
CashSpec == Init /\ [][CashNext]_vars
CashSeqSpec == Init /\ [][CashSeqNext]_vars
\* the document handlers, with open_cash for the register they need
LedgerSpec == Init /\ [][LedgerNext]_vars
LedgerSeqSpec == Init /\ [][LedgerSeqNext]_vars
\* summaries of a register that already holds movements, one request
\* after another, with manual movements recorded in between
SummarySpec == SummaryInit /\ [][SummaryNext]_vars
\* the same, one request after another, with the clock advancing
LedgerClockSeqSpec == Init /\ [][LedgerClockSeqNext]_vars

\* calculate_prices on a Product object, for every object of the catalogue
PricesNext == \E p \in Procs : calculate_prices(p)
PricesSpec == PricesInit /\ [][PricesNext]_vars

\* credit notes against an invoice already issued, one request after another
CreditNoteSeqNext == \E p \in Procs : Alone(p) /\ create_credit_note(p)
CreditNoteSeqSpec == IssuedInvoiceInit /\ [][CreditNoteSeqNext]_vars

====
